---- MODULE Spec2Model ----
(***************************************************************************)
(* A model of src/main.py: the MCP tool registry kept in the chainlit user *)
(* session (mcp_tools, mcp_plugins), the connect / disconnect handlers,    *)
(* the tool router (find_mcp_for_tool, call_tool), the message handler     *)
(* (on_message) and the log-capturing handler (CapturingHandler); and of   *)
(* the tools of the two MCP servers, src/rag-mcp/main.py and               *)
(* src/sql-mcp (separate processes, each with its own state).              *)
(*                                                                         *)
(* Every handler is a coroutine on one event loop: it runs atomically from *)
(* one await to the next, and other handlers may run at each await.  Each  *)
(* action below is one such segment.                                       *)
(***************************************************************************)
EXTENDS Integers, Sequences, FiniteSets, TLC

\* ------------------------------------------------------------------ bounds

\* Turns (user messages) of the conversation session that are explored.
MaxTurns == 2
\* Tool rounds the function-calling model call may run inside one turn.
MaxRounds == 2
\* Records the capturing handler may hold at once.
MaxLogs == 2
\* Lines of a streamed answer of the knowledge-base service.
MaxLines == 3
\* Tool calls of the SQL server that are explored.
MaxQueries == 3

\* ----------------------------------------------------------------- domains

\* connection.name of the MCP servers the user may connect.
Servers == {"kb", "sql"}
\* Tool names: "Z" is advertised by no server.
ToolNames == {"X", "Y", "Z"}
\* The tool lists session.list_tools() may return.
ToolLists == {{"X"}, {"X", "Y"}}
\* Python's None.
None == "None"
\* What the MCP session answers to call_tool.
Responses == {"ok", "app_error", "transport_failure", "timeout"}

VARIABLES
    mcp_tools,       \* user_session["mcp_tools"]: insertion-ordered dict name -> tools
    mcp_plugins,     \* user_session["mcp_plugins"]: names holding an MCPSsePlugin
    kernel_plugins,  \* plugins added to the global kernel
    mcp_sessions,    \* cl.context.session.mcp_sessions: names with a live ClientSession
    conn_pc,         \* per server: where its on_mcp_connect coroutine is
    disc_pc,         \* per server: where its on_mcp_disconnect coroutine is
    status,          \* per server: lifecycle status implied by the handlers run so far
    reg_order,       \* servers in the order their tools were registered
    call_pc,         \* where the call_tool coroutine is
    call,            \* the call_tool invocation in progress or just finished
    msg_pc,          \* where the on_message coroutine is
    history,         \* user_session["history"]: the ChatHistory
    logs,            \* capturing_handler.logs
    turn,            \* number of turns started
    rounds,          \* tool rounds of the current turn's model call
    outcome,         \* how the current / last turn ended
    hist_start,      \* the history when the current / last turn started
    trace,           \* what get_logs() returned at the end of the last turn
    ia,              \* rag-mcp: the tool call of the knowledge-base server in progress
    db               \* sql-mcp: the tool call of the SQL server and its connections

regVars == <<mcp_tools, mcp_plugins, kernel_plugins, mcp_sessions, conn_pc, disc_pc,
             status, reg_order>>
callVars == <<call_pc, call>>
msgVars == <<msg_pc, history, turn, rounds, outcome, hist_start, trace>>
srvVars == <<ia, db>>
vars == <<regVars, callVars, msgVars, logs, srvVars>>

\* ------------------------------------------------- the insertion-ordered dict

\* The keys of a dict, in iteration order.
DictKeys(d) == [i \in 1..Len(d) |-> d[i].name]

DictHas(d, k) == \E i \in 1..Len(d) : d[i].name = k

\* d[k], for a key the dict holds.
DictGet(d, k) == d[CHOOSE i \in 1..Len(d) : d[i].name = k].tools

\* A variant of DictSet that moves an existing key to the end.
DictSetMovesToEnd(d, k, v) ==
    Append(SelectSeq(d, LAMBDA e : e.name # k), [name |-> k, tools |-> v])

\* A variant of DictSet that stores into a new dict instead of the session's.
DictSetInNewDict(d, k, v) == <<[name |-> k, tools |-> v]>>

\* d[k] = v: an existing key keeps its place, a new key goes last.
DictSet(d, k, v) ==
    IF DictHas(d, k)
    THEN [i \in 1..Len(d) |-> IF d[i].name = k THEN [name |-> k, tools |-> v] ELSE d[i]]
    ELSE Append(d, [name |-> k, tools |-> v])

\* del d[k]
DictDel(d, k) == SelectSeq(d, LAMBDA e : e.name # k)

\* ------------------------------------------------------------- the router

\* A variant of FindIn that returns the last matching connection.
FindLastIn(d, tool_name) ==
    LET hits == {i \in 1..Len(d) : tool_name \in d[i].tools}
    IN  IF hits = {} THEN None
        ELSE d[CHOOSE i \in hits : \A j \in hits : j <= i].name

\* The loop of find_mcp_for_tool over mcp_tools.items(): the first connection
\* whose tools hold the name, or None.
FindIn(d, tool_name) ==
    LET hits == {i \in 1..Len(d) : tool_name \in d[i].tools}
    IN  IF hits = {} THEN None
        ELSE d[CHOOSE i \in hits : \A j \in hits : i <= j].name

find_mcp_for_tool(tool_name) == FindIn(mcp_tools, tool_name)

NoCall == [tool |-> None, mcp |-> None, dispatched |-> None, resp |-> None,
           result |-> None, disc |-> FALSE]

\* rag-mcp: no tool call in progress.
IaIdle == [pc |-> "idle", tool |-> None, arg |-> None, http |-> 0, lines |-> <<>>,
           full |-> 0, reference |-> FALSE, out |-> {}]

\* sql-mcp: no tool call in progress, no call made, no connection open.
DbIdle == [pc |-> "idle", query |-> None, calls |-> 0, open |-> 0, out |-> None]

Init ==
    /\ ia = IaIdle
    /\ db = DbIdle
    /\ mcp_tools = <<>>
    /\ mcp_plugins = {}
    /\ kernel_plugins = {}
    /\ mcp_sessions = {}
    /\ conn_pc = [s \in Servers |-> "idle"]
    /\ disc_pc = [s \in Servers |-> "idle"]
    /\ status = [s \in Servers |-> "Disconnected"]
    /\ reg_order = <<>>
    /\ call_pc = "idle"
    /\ call = NoCall
    /\ msg_pc = "idle"
    /\ history = <<>>
    /\ logs = <<>>
    /\ turn = 0
    /\ rounds = 0
    /\ outcome = None
    /\ hist_start = <<>>
    /\ trace = <<>>

\* ------------------------------------------------------- on_mcp_connect

\* A variant of ExceptClause in which the exception leaves the handler.
ExceptClauseRaises == "raised"

\* Where a handler goes when one of its steps raises: each try block of the
\* lifecycle handlers has an except clause that awaits the sending of an
\* error message.
ExceptClause == "send_error"

\* The chainlit session holds the server's ClientSession when the handler is
\* called; the handler suspends at once in session.list_tools().
on_mcp_connect(s) ==
    /\ conn_pc[s] = "idle"
    /\ conn_pc' = [conn_pc EXCEPT ![s] = "list_tools"]
    /\ mcp_sessions' = mcp_sessions \cup {s}
    /\ status' = [status EXCEPT ![s] = "Connecting"]
    /\ UNCHANGED <<mcp_tools, mcp_plugins, kernel_plugins, disc_pc, reg_order>>
    /\ UNCHANGED <<callVars, msgVars, logs, srvVars>>

\* session.list_tools() raised: control goes to the handler's except clause.
on_mcp_connect_list_failed(s) ==
    /\ conn_pc[s] = "list_tools"
    /\ conn_pc' = [conn_pc EXCEPT ![s] = ExceptClause]
    /\ status' = [status EXCEPT ![s] = "Disconnected"]
    /\ UNCHANGED <<mcp_tools, mcp_plugins, kernel_plugins, mcp_sessions, disc_pc, reg_order>>
    /\ UNCHANGED <<callVars, msgVars, logs, srvVars>>

\* The order of registration: a name joins at its first registration and
\* leaves when its tools are removed.
Registered(order, s) ==
    IF \E i \in 1..Len(order) : order[i] = s THEN order ELSE Append(order, s)

\* session.list_tools() answered: the tools are stored under the connection's
\* name, then _integrate_mcp_with_kernel runs up to its first await.  A
\* connection without a url makes it raise ValueError, which its own except
\* clause reports; the stored tools stay.
on_mcp_connect_listed(s) ==
    /\ conn_pc[s] = "list_tools"
    /\ \E tools \in ToolLists, has_url \in BOOLEAN :
        /\ mcp_tools' = DictSet(mcp_tools, s, tools)
        /\ reg_order' = Registered(reg_order, s)
        /\ IF has_url
           THEN /\ conn_pc' = [conn_pc EXCEPT ![s] = "plugin_connect"]
                /\ status' = status
           ELSE /\ conn_pc' = [conn_pc EXCEPT ![s] = ExceptClause]
                /\ status' = [status EXCEPT ![s] = "Disconnected"]
    /\ UNCHANGED <<mcp_plugins, kernel_plugins, mcp_sessions, disc_pc>>
    /\ UNCHANGED <<callVars, msgVars, logs, srvVars>>

\* mcp_plugin.connect() returned: the plugin is added to the kernel and kept
\* in mcp_plugins.
integrate_connected(s) ==
    /\ conn_pc[s] = "plugin_connect"
    /\ kernel_plugins' = kernel_plugins \cup {s}
    /\ mcp_plugins' = mcp_plugins \cup {s}
    /\ conn_pc' = [conn_pc EXCEPT ![s] = "idle"]
    /\ status' = [status EXCEPT ![s] = "Active"]
    /\ UNCHANGED <<mcp_tools, mcp_sessions, disc_pc, reg_order>>
    /\ UNCHANGED <<callVars, msgVars, logs, srvVars>>

\* mcp_plugin.connect() raised: control goes to the except clause of
\* _integrate_mcp_with_kernel.
integrate_failed(s) ==
    /\ conn_pc[s] = "plugin_connect"
    /\ conn_pc' = [conn_pc EXCEPT ![s] = ExceptClause]
    /\ status' = [status EXCEPT ![s] = "Disconnected"]
    /\ UNCHANGED <<mcp_tools, mcp_plugins, kernel_plugins, mcp_sessions, disc_pc, reg_order>>
    /\ UNCHANGED <<callVars, msgVars, logs, srvVars>>

\* The error message of a failed connect is sent: the except clause ends and
\* the handler returns.
connect_error_sent(s) ==
    /\ conn_pc[s] = "send_error"
    /\ conn_pc' = [conn_pc EXCEPT ![s] = "idle"]
    /\ UNCHANGED <<mcp_tools, mcp_plugins, kernel_plugins, mcp_sessions, disc_pc, status,
                   reg_order>>
    /\ UNCHANGED <<callVars, msgVars, logs, srvVars>>

\* ---------------------------------------------------- on_mcp_disconnect

\* The order of registration without s.
Unregistered(order, s) == SelectSeq(order, LAMBDA x : x # s)

\* A disconnect that overlaps a call in flight on the same server is noted in
\* the call's record.
NoteDisconnect(c, s) ==
    IF call_pc = "awaiting" /\ c.mcp = s THEN [c EXCEPT !.disc = TRUE] ELSE c

\* The handler up to its first await: the stored tools are removed, then a
\* tracked plugin is asked to disconnect (an await); an untracked name is
\* reported as not found.
on_mcp_disconnect(s) ==
    /\ disc_pc[s] = "idle"
    /\ mcp_tools' = IF DictHas(mcp_tools, s) THEN DictDel(mcp_tools, s) ELSE mcp_tools
    /\ reg_order' = Unregistered(reg_order, s)
    /\ disc_pc' = [disc_pc EXCEPT ![s] =
                      IF s \in mcp_plugins THEN "plugin_disconnect" ELSE "closing"]
    /\ status' = [status EXCEPT ![s] = "Disconnecting"]
    /\ call' = NoteDisconnect(call, s)
    /\ UNCHANGED <<mcp_plugins, kernel_plugins, mcp_sessions, conn_pc>>
    /\ UNCHANGED <<call_pc, msgVars, logs, srvVars>>

\* plugin.disconnect() returned: the plugin is dropped from mcp_plugins.
disconnect_done(s) ==
    /\ disc_pc[s] = "plugin_disconnect"
    /\ mcp_plugins' = mcp_plugins \ {s}
    /\ disc_pc' = [disc_pc EXCEPT ![s] = "closing"]
    /\ UNCHANGED <<mcp_tools, kernel_plugins, mcp_sessions, conn_pc, status, reg_order>>
    /\ UNCHANGED <<callVars, msgVars, logs, srvVars>>

\* plugin.disconnect() raised: control goes to the except clause and
\* mcp_plugins keeps the plugin.
disconnect_failed(s) ==
    /\ disc_pc[s] = "plugin_disconnect"
    /\ disc_pc' = [disc_pc EXCEPT ![s] = ExceptClause]
    /\ UNCHANGED <<mcp_tools, mcp_plugins, kernel_plugins, mcp_sessions, conn_pc, status,
                   reg_order>>
    /\ UNCHANGED <<callVars, msgVars, logs, srvVars>>

\* The error message of a failed disconnect is sent: the except clause ends
\* and the handler returns.
disconnect_error_sent(s) ==
    /\ disc_pc[s] = "send_error"
    /\ disc_pc' = [disc_pc EXCEPT ![s] = "closing"]
    /\ UNCHANGED <<mcp_tools, mcp_plugins, kernel_plugins, mcp_sessions, conn_pc, status,
                   reg_order>>
    /\ UNCHANGED <<callVars, msgVars, logs, srvVars>>

\* The handler has returned: chainlit closes the server's ClientSession and
\* drops it from mcp_sessions.
session_closed(s) ==
    /\ disc_pc[s] = "closing"
    /\ disc_pc' = [disc_pc EXCEPT ![s] = "idle"]
    /\ mcp_sessions' = mcp_sessions \ {s}
    /\ status' = [status EXCEPT ![s] = "Disconnected"]
    /\ UNCHANGED <<mcp_tools, mcp_plugins, kernel_plugins, conn_pc, reg_order>>
    /\ UNCHANGED <<callVars, msgVars, logs, srvVars>>

\* ------------------------------------------------------------ call_tool

\* A variant of CallToolLookup that calls the tool on some live session when
\* no connection advertises it.
CallToolLookupCallsAnyway(d, sessions, tool_name) ==
    LET mcp_name == FindIn(d, tool_name)
    IN  IF mcp_name = None
        THEN IF sessions = {}
             THEN [mcp |-> None, dispatched |-> None, result |-> "tool_not_found"]
             ELSE LET any == CHOOSE s \in sessions : TRUE
                  IN  [mcp |-> any, dispatched |-> any, result |-> None]
        ELSE IF mcp_name \notin sessions
        THEN [mcp |-> mcp_name, dispatched |-> None, result |-> "session_not_found"]
        ELSE [mcp |-> mcp_name, dispatched |-> mcp_name, result |-> None]

\* A variant of CallToolLookup that retries on another connection advertising
\* the tool when the first one has no session.
CallToolLookupRetries(d, sessions, tool_name) ==
    LET mcp_name == FindIn(d, tool_name)
        others == {s \in sessions : DictHas(d, s) /\ tool_name \in DictGet(d, s)}
    IN  IF mcp_name = None
        THEN [mcp |-> None, dispatched |-> None, result |-> "tool_not_found"]
        ELSE IF mcp_name \notin sessions
        THEN IF others = {}
             THEN [mcp |-> mcp_name, dispatched |-> None, result |-> "session_not_found"]
             ELSE LET other == CHOOSE s \in others : TRUE
                  IN  [mcp |-> other, dispatched |-> other, result |-> None]
        ELSE [mcp |-> mcp_name, dispatched |-> mcp_name, result |-> None]

\* call_tool up to its await: the tool's connection is looked up, then the
\* connection's session; either lookup failing returns an error result, and
\* otherwise the tool is called on that session.
CallToolLookup(d, sessions, tool_name) ==
    LET mcp_name == FindIn(d, tool_name)
    IN  IF mcp_name = None
        THEN [mcp |-> None, dispatched |-> None, result |-> "tool_not_found"]
        ELSE IF mcp_name \notin sessions
        THEN [mcp |-> mcp_name, dispatched |-> None, result |-> "session_not_found"]
        ELSE [mcp |-> mcp_name, dispatched |-> mcp_name, result |-> None]

call_tool(tool_name) ==
    /\ call_pc = "idle"
    /\ LET found == CallToolLookup(mcp_tools, mcp_sessions, tool_name)
       IN  /\ call' = [NoCall EXCEPT !.tool = tool_name, !.mcp = found.mcp,
                                     !.dispatched = found.dispatched,
                                     !.result = found.result]
           /\ call_pc' = IF found.dispatched = None THEN "done" ELSE "awaiting"
    /\ UNCHANGED <<regVars, msgVars, logs, srvVars>>

\* A variant of CallToolResult that lets the session's exception escape.
CallToolResultRaises(resp, mcp_name) ==
    CASE resp = "ok" -> "ok"
      [] resp = "app_error" -> "app_error"
      [] OTHER -> "raised"

\* A variant of CallToolResult that looks the connection up again after the
\* await and gives up when it is gone.
CallToolResultRechecks(resp, mcp_name) ==
    IF ~DictHas(mcp_tools, mcp_name) THEN "session_not_found"
    ELSE CASE resp = "ok" -> "ok"
           [] resp = "app_error" -> "app_error"
           [] OTHER -> "execution_error"

\* What call_tool returns once mcp_session.call_tool has ended: the session's
\* answer as it is (also one the server marked as an error), and for an
\* exception (transport failure, timeout) the JSON error built by the except
\* clause.
CallToolResult(resp, mcp_name) ==
    CASE resp = "ok" -> "ok"
      [] resp = "app_error" -> "app_error"
      [] OTHER -> "execution_error"

call_tool_answered ==
    /\ call_pc = "awaiting"
    /\ \E resp \in Responses :
        call' = [call EXCEPT !.resp = resp, !.result = CallToolResult(resp, call.mcp)]
    /\ call_pc' = "done"
    /\ UNCHANGED <<regVars, msgVars, logs, srvVars>>

\* The caller has taken the result.
call_tool_returned ==
    /\ call_pc = "done"
    /\ call_pc' = "idle"
    /\ call' = NoCall
    /\ UNCHANGED <<regVars, msgVars, logs, srvVars>>

\* ----------------------------------------------------------- on_message

Msg(role) == [role |-> role, turn |-> turn]

\* A variant of TurnStartLogs that keeps the previous records.
TurnStartLogsKept(l) == l

\* capturing_handler.clear() at the start of a turn.
TurnStartLogs(l) == <<>>

\* A variant of SessionHistory that starts every turn on a new ChatHistory.
SessionHistoryAlwaysNew(h) == <<>>

\* The history a turn works on: the session's ChatHistory, or a new one when
\* that is falsy (an empty ChatHistory has length 0).
SessionHistory(h) == IF Len(h) = 0 THEN <<>> ELSE h

\* The handler up to the model call: the user message is appended to the
\* session's history, the captured logs are cleared.
on_message ==
    /\ msg_pc = "idle"
    /\ turn < MaxTurns
    /\ turn' = turn + 1
    /\ hist_start' = history
    /\ history' = Append(SessionHistory(history), [role |-> "user", turn |-> turn + 1])
    /\ logs' = TurnStartLogs(logs)
    /\ rounds' = 0
    /\ outcome' = "running"
    /\ trace' = <<>>
    /\ msg_pc' = "model"
    /\ UNCHANGED <<regVars, callVars, srvVars>>

\* A variant of RoundAllowed that lets one more round run.
RoundAllowedOnceMore(r) == r < MaxRounds + 1

\* FunctionChoiceBehavior.Auto() lets the model call invoke functions for a
\* limited number of rounds; after the last one the model is asked once more
\* without functions.
RoundAllowed(r) == r < MaxRounds

\* Inside get_chat_message_content with FunctionChoiceBehavior.Auto(): the
\* model asks for a function of a kernel plugin; the call and its result are
\* appended to the chat history and the model is asked again.
model_tool_round ==
    /\ msg_pc = "model"
    /\ RoundAllowed(rounds)
    /\ kernel_plugins # {}
    /\ history' = history \o <<Msg("assistant_tool_call"), Msg("tool")>>
    /\ rounds' = rounds + 1
    /\ UNCHANGED <<msg_pc, turn, outcome, hist_start, trace>>
    /\ UNCHANGED <<regVars, callVars, logs, srvVars>>

\* A variant of ResponseAdded that adds the response twice.
ResponseAddedTwice(h, response) == Append(Append(h, response), response)

\* history.add_message(response)
ResponseAdded(h, response) == Append(h, response)

\* The model call returned its final response: it is added to the history,
\* the captured logs are read and the response is sent.
on_message_answered ==
    /\ msg_pc = "model"
    /\ history' = ResponseAdded(history, Msg("assistant"))
    /\ trace' = logs
    /\ outcome' = "answered"
    /\ msg_pc' = "idle"
    /\ UNCHANGED <<turn, rounds, hist_start>>
    /\ UNCHANGED <<regVars, callVars, logs, srvVars>>

\* A variant of ModelCallFailed that takes the turn's user message back.
ModelCallFailedRollsBack(h) == SubSeq(h, 1, Len(h) - 1)

\* The inner except clause of on_message: it sends the error and leaves the
\* history as it is.
ModelCallFailed(h) == h

\* The model call raised: the error is sent to the user.
on_message_failed ==
    /\ msg_pc = "model"
    /\ history' = ModelCallFailed(history)
    /\ outcome' = "error"
    /\ msg_pc' = "idle"
    /\ UNCHANGED <<turn, rounds, hist_start, trace>>
    /\ UNCHANGED <<regVars, callVars, logs, srvVars>>

\* ------------------------------------------------------ CapturingHandler

\* A semantic_kernel logger emits a record while semantic_kernel code runs
\* (the model call, a plugin connecting): emit() appends it.  The record is
\* tagged with the number of the latest turn started.
emit ==
    /\ msg_pc = "model" \/ \E s \in Servers : conn_pc[s] = "plugin_connect"
    /\ Len(logs) < MaxLogs
    /\ logs' = Append(logs, turn)
    /\ UNCHANGED <<regVars, callVars, msgVars, srvVars>>

\* ------------------------------------------------- rag-mcp: the tools

\* The query / source argument of a tool call: empty or not.
Arguments == {"", "q"}

\* A line of the streamed /chat answer: empty, not JSON, an object with
\* content, an object with a citation lookup whose entries have all fields or
\* lack page_number, or JSON that is not an object.
LineKinds == {"blank", "not_json", "content", "citation", "citation_without_page",
              "not_object"}

\* The bodies of a /chat answer.
Bodies == UNION {[1..n -> LineKinds] : n \in 0..MaxLines}

\* The body of a /getcitation answer: not JSON, an object with or without the
\* fields, or JSON that is not an object.
CitationBodies == {"not_json", "object", "object_without_fields", "not_object"}

\* The exceptions of the requests library the tools name in except clauses.
RequestErrors == {"Timeout", "ConnectionError", "RequestException"}

\* The keys of the JSON object a tool returns on success.
SuccessShape(tool) ==
    IF tool = "post_question_to_ia" THEN {"response", "reference"}
    ELSE {"file_uri", "page_number", "content"}

\* A variant of ExceptFor without the final except Exception clause.
ExceptForRequestErrorsOnly(exc) ==
    IF exc \in RequestErrors THEN exc ELSE None

\* The first except clause of a tool's try block that matches the exception:
\* Timeout, ConnectionError, RequestException, and Exception for the rest.
ExceptFor(exc) ==
    IF exc \in RequestErrors THEN exc ELSE "Exception"

\* Exception exc is raised inside the try block of the call c: the clause
\* that catches it returns the error object.
Failed(c, exc) ==
    IF ExceptFor(exc) # None
    THEN [c EXCEPT !.pc = "returned", !.out = {"error"}]
    ELSE [c EXCEPT !.pc = "raised"]

\* The start of a tool up to its HTTP request: an empty argument is answered
\* with the error object at once, otherwise requests.post is called.
ToolCalled(tool, arg) ==
    IF arg = ""
    THEN [IaIdle EXCEPT !.tool = tool, !.arg = arg, !.pc = "returned", !.out = {"error"}]
    ELSE [IaIdle EXCEPT !.tool = tool, !.arg = arg, !.pc = "post", !.http = 1]

post_question_to_ia ==
    /\ ia.pc = "idle"
    /\ \E query \in Arguments : ia' = ToolCalled("post_question_to_ia", query)
    /\ UNCHANGED <<regVars, callVars, msgVars, logs, db>>

get_reference ==
    /\ ia.pc = "idle"
    /\ \E source \in Arguments : ia' = ToolCalled("get_reference", source)
    /\ UNCHANGED <<regVars, callVars, msgVars, logs, db>>

\* requests.post raises (timeout, no connection), or raise_for_status raises
\* for a 4XX/5XX status.
ia_request_fails ==
    /\ ia.pc = "post"
    /\ \E exc \in RequestErrors : ia' = Failed(ia, exc)
    /\ UNCHANGED <<regVars, callVars, msgVars, logs, db>>

\* /chat answers with a 2XX status: the tool starts to iterate over the lines
\* of the body.
ia_chat_responds ==
    /\ ia.pc = "post"
    /\ ia.tool = "post_question_to_ia"
    /\ \E body \in Bodies : ia' = [ia EXCEPT !.pc = "lines", !.lines = body]
    /\ UNCHANGED <<regVars, callVars, msgVars, logs, db>>

\* One pass of the loop over response.iter_lines().
LineRead(c, line) ==
    LET rest == [c EXCEPT !.lines = Tail(c.lines)]
    IN  CASE line = "blank" -> rest
          [] line = "not_json" -> rest
          [] line = "content" -> [rest EXCEPT !.full = c.full + 1]
          [] line = "citation" -> [rest EXCEPT !.reference = TRUE]
          [] line = "citation_without_page" -> Failed(c, "KeyError")
          [] line = "not_object" -> Failed(c, "AttributeError")

ia_line ==
    /\ ia.pc = "lines"
    /\ ia.lines # <<>>
    /\ ia' = LineRead(ia, Head(ia.lines))
    /\ UNCHANGED <<regVars, callVars, msgVars, logs, db>>

\* The connection breaks while the body is streamed: iter_lines raises.
ia_stream_breaks ==
    /\ ia.pc = "lines"
    /\ ia.lines # <<>>
    /\ ia' = Failed(ia, "RequestException")
    /\ UNCHANGED <<regVars, callVars, msgVars, logs, db>>

\* The body is exhausted: the answer and the references are returned.
ia_chat_done ==
    /\ ia.pc = "lines"
    /\ ia.lines = <<>>
    /\ ia' = [ia EXCEPT !.pc = "returned", !.out = SuccessShape(ia.tool)]
    /\ UNCHANGED <<regVars, callVars, msgVars, logs, db>>

\* What get_reference does with the body of a 2XX answer: response.json()
\* in an inner try that catches JSONDecodeError, then result.get for each
\* field.
CitationRead(c, body) ==
    CASE body = "not_json" -> [c EXCEPT !.pc = "returned", !.out = {"error"}]
      [] body = "not_object" -> Failed(c, "AttributeError")
      [] OTHER -> [c EXCEPT !.pc = "returned", !.out = SuccessShape(c.tool)]

ia_citation_responds ==
    /\ ia.pc = "post"
    /\ ia.tool = "get_reference"
    /\ \E body \in CitationBodies : ia' = CitationRead(ia, body)
    /\ UNCHANGED <<regVars, callVars, msgVars, logs, db>>

\* The MCP server hands the tool's result to its client.
ia_returned ==
    /\ ia.pc = "returned"
    /\ ia' = IaIdle
    /\ UNCHANGED <<regVars, callVars, msgVars, logs, db>>

\* The tools of the knowledge-base MCP server (src/rag-mcp).
KnowledgeBase ==
    \/ post_question_to_ia
    \/ get_reference
    \/ ia_request_fails
    \/ ia_chat_responds
    \/ ia_line
    \/ ia_stream_breaks
    \/ ia_chat_done
    \/ ia_citation_responds
    \/ ia_returned

\* ------------------------------------------------- sql-mcp: the tools

\* The query of a tool call: one that returns rows json.dumps can serialise,
\* one that returns rows it cannot (a date or binary column), a statement
\* without a result set, or text the database rejects.
QueryKinds == {"select", "select_date", "update", "invalid"}

\* fetch_data_from_azure_sql is entered: it asks for an access token.
Fetching(d, query) ==
    [d EXCEPT !.pc = "token", !.query = query, !.calls = d.calls + 1, !.out = None]

execute_query ==
    /\ db.pc = "idle"
    /\ db.calls < MaxQueries
    /\ \E query \in QueryKinds : db' = Fetching(db, query)
    /\ UNCHANGED <<regVars, callVars, msgVars, logs, ia>>

get_table_schema ==
    /\ db.pc = "idle"
    /\ db.calls < MaxQueries
    /\ db' = Fetching(db, "select")
    /\ UNCHANGED <<regVars, callVars, msgVars, logs, ia>>

\* A statement of fetch_data_from_azure_sql raises: the function has no try
\* block, so the exception leaves it at once and nothing after the statement
\* runs.
Raised(d) == [d EXCEPT !.pc = "finished", !.out = "raised"]

\* get_token or pyodbc.connect raises: no connection was opened.
db_connect_fails ==
    /\ db.pc = "token"
    /\ db' = Raised(db)
    /\ UNCHANGED <<regVars, callVars, msgVars, logs, ia>>

\* pyodbc.connect returns a connection.
db_connected ==
    /\ db.pc = "token"
    /\ db' = [db EXCEPT !.pc = "connected", !.open = db.open + 1]
    /\ UNCHANGED <<regVars, callVars, msgVars, logs, ia>>

\* cursor.execute(query): the database rejects text that is not valid.
db_execute ==
    /\ db.pc = "connected"
    /\ db' = IF db.query = "invalid" THEN Raised(db) ELSE [db EXCEPT !.pc = "executed"]
    /\ UNCHANGED <<regVars, callVars, msgVars, logs, ia>>

\* cursor.execute raises for a reason of the database's (a lost connection,
\* a timeout).
db_execute_fails ==
    /\ db.pc = "connected"
    /\ db' = Raised(db)
    /\ UNCHANGED <<regVars, callVars, msgVars, logs, ia>>

\* The columns and rows are fetched: cursor.description is None for a
\* statement without a result set, and iterating over it raises.
db_fetch ==
    /\ db.pc = "executed"
    /\ db' = IF db.query = "update" THEN Raised(db) ELSE [db EXCEPT !.pc = "fetched"]
    /\ UNCHANGED <<regVars, callVars, msgVars, logs, ia>>

\* json.dumps(data, default=...): the default function returns a value that
\* is neither a datetime nor a Decimal as it is, and json.dumps raises.
\* Otherwise the cursor and the connection are closed and the JSON text is
\* returned.
db_serialise ==
    /\ db.pc = "fetched"
    /\ db' = IF db.query = "select_date"
             THEN Raised(db)
             ELSE [db EXCEPT !.pc = "finished", !.open = db.open - 1, !.out = "json"]
    /\ UNCHANGED <<regVars, callVars, msgVars, logs, ia>>

\* The function has finished, by return or by exception; the MCP server
\* answers its client.
db_finished ==
    /\ db.pc = "finished"
    /\ db' = [db EXCEPT !.pc = "idle"]
    /\ UNCHANGED <<regVars, callVars, msgVars, logs, ia>>

\* The tools of the SQL MCP server (src/sql-mcp).
SqlTools ==
    \/ execute_query
    \/ get_table_schema
    \/ db_connect_fails
    \/ db_connected
    \/ db_execute
    \/ db_execute_fails
    \/ db_fetch
    \/ db_serialise
    \/ db_finished

\* ------------------------------------------------------------------ Next

\* The connect and disconnect handlers of server s.
Lifecycle(s) ==
    \/ on_mcp_connect(s)
    \/ on_mcp_connect_list_failed(s)
    \/ on_mcp_connect_listed(s)
    \/ integrate_connected(s)
    \/ integrate_failed(s)
    \/ connect_error_sent(s)
    \/ on_mcp_disconnect(s)
    \/ disconnect_done(s)
    \/ disconnect_failed(s)
    \/ disconnect_error_sent(s)
    \/ session_closed(s)

\* The connect handler of server s alone.
Connecting(s) ==
    \/ on_mcp_connect(s)
    \/ on_mcp_connect_list_failed(s)
    \/ on_mcp_connect_listed(s)
    \/ integrate_connected(s)
    \/ integrate_failed(s)
    \/ connect_error_sent(s)

\* A tool invocation through the router.
Routing ==
    \/ \E t \in ToolNames : call_tool(t)
    \/ call_tool_answered
    \/ call_tool_returned

\* A turn of the conversation, and the log records captured meanwhile.
Conversing ==
    \/ on_message
    \/ model_tool_round
    \/ on_message_answered
    \/ on_message_failed
    \/ emit

Next == (\E s \in Servers : Lifecycle(s)) \/ Routing \/ Conversing \/ KnowledgeBase
            \/ SqlTools

\* Every handler of the program, interleaved at the awaits.
Spec == Init /\ [][Next]_vars

\* The registry and the router: connect and disconnect events of every server
\* interleaved with tool invocations.  The conversation's actions change only
\* the history, the turn's counters and the captured logs, which no action
\* here reads, so they are left out.
RouterNext == (\E s \in Servers : Lifecycle(s)) \/ Routing

RouterSpec == Init /\ [][RouterNext]_vars

\* The conversation: turns interleaved with the captured log records and with
\* a server connecting (which adds a plugin to the kernel and logs).  The
\* disconnect handler and the router change nothing a turn reads (the kernel
\* keeps a plugin after its disconnect), so they are left out.
TurnServer == "kb"

TurnNext == Connecting(TurnServer) \/ Conversing

TurnSpec == Init /\ [][TurnNext]_vars

\* The event loop resumes a suspended model call once it has returned or
\* raised, and the model call does one of the two.
FairTurnSpec ==
    TurnSpec /\ WF_vars(on_message_answered \/ on_message_failed)

\* ------------------------------------------------- a second chat session

\* capturing_handler and kernel are module globals: every chat session of
\* the process uses the same two objects.  The actions below are what another
\* session's handlers do to them; that session's own history and dicts live
\* in its own user_session and are not modelled.

\* The name of the MCP server the other session connects.
PeerServer == "crm"
\* The tag of a record captured while the other session's model call runs.
PeerTag == -1

\* on_message of the other session: its capturing_handler.clear().
peer_on_message ==
    /\ logs # <<>>
    /\ logs' = TurnStartLogs(logs)
    /\ UNCHANGED <<regVars, callVars, msgVars, srvVars>>

\* A semantic_kernel logger emits a record during the other session's model
\* call.
peer_emit ==
    /\ Len(logs) < MaxLogs
    /\ logs' = Append(logs, PeerTag)
    /\ UNCHANGED <<regVars, callVars, msgVars, srvVars>>

\* _integrate_mcp_with_kernel of the other session: kernel.add_plugin.
peer_integrate_connected ==
    /\ kernel_plugins' = kernel_plugins \cup {PeerServer}
    /\ UNCHANGED <<mcp_tools, mcp_plugins, mcp_sessions, conn_pc, disc_pc, status,
                   reg_order>>
    /\ UNCHANGED <<callVars, msgVars, logs, srvVars>>

PeerActing == peer_on_message \/ peer_emit \/ peer_integrate_connected

\* Two chat sessions of one process: the turns of this session interleaved
\* with the other session's turns and connects.
PeerNext == TurnNext \/ PeerActing

PeerSpec == Init /\ [][PeerNext]_vars

\* Turns of the session interleaved with the whole lifecycle (connect and
\* disconnect) of one server.
CatalogNext == Lifecycle(TurnServer) \/ Conversing

CatalogSpec == Init /\ [][CatalogNext]_vars

\* The connect and disconnect handlers of all servers, interleaved freely.
LifecycleNext == \E s \in Servers : Lifecycle(s)

LifecycleSpec == Init /\ [][LifecycleNext]_vars

\* The handlers of one server run one after the other: a handler of s starts
\* only when the other handler of s is not suspended.
SerialLifecycle(s) ==
    \/ disc_pc[s] = "idle" /\ on_mcp_connect(s)
    \/ on_mcp_connect_list_failed(s)
    \/ on_mcp_connect_listed(s)
    \/ integrate_connected(s)
    \/ integrate_failed(s)
    \/ connect_error_sent(s)
    \/ conn_pc[s] = "idle" /\ on_mcp_disconnect(s)
    \/ disconnect_done(s)
    \/ disconnect_failed(s)
    \/ disconnect_error_sent(s)
    \/ session_closed(s)

\* The registry alone, under connection events that chainlit delivers in
\* sequence for each server.
RegistryNext == \E s \in Servers : SerialLifecycle(s)

RegistrySpec == Init /\ [][RegistryNext]_vars

\* A turn in which the model answers, or fails, without calling a function.
Chatting == on_message \/ on_message_answered \/ on_message_failed

\* The connect and disconnect handlers of all servers, interleaved freely
\* with each other and with the turns of the conversation.
FrameNext == LifecycleNext \/ Chatting

FrameSpec == Init /\ [][FrameNext]_vars

\* The knowledge-base MCP server alone: a process of its own.
KnowledgeBaseSpec == Init /\ [][KnowledgeBase]_vars

\* The SQL MCP server alone: a process of its own.
SqlSpec == Init /\ [][SqlTools]_vars

\* ============================================================ properties

\* Server s holds an entry in mcp_tools that lists the tool.
Advertises(s, tool_name) == DictHas(mcp_tools, s) /\ tool_name \in DictGet(mcp_tools, s)

Advertisers(tool_name) == {s \in Servers : Advertises(s, tool_name)}

\* a's tools were registered before b's.
RegisteredBefore(a, b) ==
    \E i, j \in 1..Len(reg_order) : i < j /\ reg_order[i] = a /\ reg_order[j] = b

\* A call_tool invocation starts in this step.
CallStarts == call_pc = "idle" /\ call_pc' # "idle"

\* C1: in every reachable state a tool name resolves (find_mcp_for_tool
\* returns a server) if and only if a server advertising it is Active, and a
\* server whose disconnect handler has started resolves no tool.
C1_ResolvableIffActive ==
    /\ \A t \in ToolNames :
          (find_mcp_for_tool(t) # None)
              <=> (\E s \in Servers : status[s] = "Active" /\ Advertises(s, t))
    /\ \A s \in Servers, t \in ToolNames :
          status[s] = "Disconnecting" => find_mcp_for_tool(t) # s

C3_NeverRaises ==
    /\ call.result # "raised"
    /\ call_pc = "done" =>
          /\ call.result \in {"ok", "app_error", "execution_error", "tool_not_found",
                               "session_not_found"}
          /\ call.resp \in {"transport_failure", "timeout"} =>
                call.result = "execution_error"
          /\ call.resp = "app_error" => call.result = "app_error"

\* C3's case: the server's session timed out and call_tool returned the error.
C3_Witness ==
    call_pc = "done" /\ call.resp = "timeout" /\ call.result = "execution_error"

\* C4: an invocation of a tool that no registered server advertises returns
\* a tool-not-found error at once and calls no server session.
C4_NotFoundCallsNothing ==
    [][(CallStarts /\ Advertisers(call'.tool) = {})
         => /\ call_pc' = "done"
            /\ call'.result = "tool_not_found"
            /\ call'.dispatched = None]_vars

\* C4's case: a session is live, yet the unadvertised tool was not called on it.
C4_Witness ==
    /\ call_pc = "done" /\ call.result = "tool_not_found"
    /\ Advertisers(call.tool) = {}
    /\ mcp_sessions # {}

\* C5: an invocation whose tool resolves to a server without a live session
\* returns a session-unavailable error and is not retried on another server.
C5_NoSessionNoRetry ==
    [][(/\ CallStarts
        /\ find_mcp_for_tool(call'.tool) # None
        /\ find_mcp_for_tool(call'.tool) \notin mcp_sessions)
         => /\ call_pc' = "done"
            /\ call'.result = "session_not_found"
            /\ call'.mcp = find_mcp_for_tool(call'.tool)
            /\ call'.dispatched = None]_vars

\* C5's case: another server with a live session advertises the same tool.
C5_Witness ==
    /\ call_pc = "done" /\ call.result = "session_not_found"
    /\ find_mcp_for_tool(call.tool) = call.mcp
    /\ call.mcp \notin mcp_sessions
    /\ \E s \in mcp_sessions : s # call.mcp /\ Advertises(s, call.tool)

\* C6: an invocation in flight on server S when on_mcp_disconnect(S) runs,
\* and which the server then answers successfully, returns that answer.
C6_DisconnectKeepsCall ==
    (call_pc = "done" /\ call.disc /\ call.resp = "ok") => call.result = "ok"

\* C6's case: the disconnect ran to its end (entry removed, session closed)
\* before the answer.
C6_Witness ==
    /\ call_pc = "done" /\ call.disc /\ call.resp = "ok" /\ call.result = "ok"
    /\ ~DictHas(mcp_tools, call.mcp)
    /\ call.mcp \notin mcp_sessions
    /\ disc_pc[call.mcp] = "idle"

\* The messages n tool rounds of the current turn append to the history.
RECURSIVE ToolRoundMsgs(_)
ToolRoundMsgs(n) ==
    IF n = 0 THEN <<>>
    ELSE ToolRoundMsgs(n - 1) \o <<Msg("assistant_tool_call"), Msg("tool")>>

TurnEnded == msg_pc = "idle" /\ turn > 0

\* C7: the trace read at the end of a turn holds only records captured
\* during that turn, never one captured during or after an earlier turn.
C7_TraceIsolation ==
    \A i \in 1..Len(trace) : trace[i] = turn

\* C7's case: the second turn ended with a trace that is not empty.
C7_Witness ==
    TurnEnded /\ turn = 2 /\ outcome = "answered" /\ trace # <<>>

\* C8: a turn whose model call asks for no tool appends one user message and
\* then one assistant message to the history, and nothing else (no tool call,
\* no tool result).
C8_PlainTurn ==
    (TurnEnded /\ outcome = "answered" /\ rounds = 0) =>
        history = hist_start \o <<Msg("user"), Msg("assistant")>>

\* C8's case: a plain turn on a history that already holds messages, while
\* the kernel holds a plugin the model could have asked for.
C8_Witness ==
    /\ TurnEnded /\ outcome = "answered" /\ rounds = 0
    /\ hist_start # <<>>
    /\ kernel_plugins # {}

\* C9: when the model call fails the turn ends with the error sent to the
\* user; the history holds what was appended before the failure (the user
\* message and the tool rounds already run), no final assistant message, and
\* nothing was removed; the handler is ready for the next turn.
C9_FailedTurnKeepsHistory ==
    outcome = "error" =>
        /\ msg_pc = "idle"
        /\ history = (hist_start \o <<Msg("user")>>) \o ToolRoundMsgs(rounds)
        /\ turn < MaxTurns => ENABLED on_message

\* C9's case: the first turn failed right away, and the second turn then ran
\* to its answer on the same history.
C9_Witness ==
    /\ TurnEnded /\ turn = 2 /\ outcome = "answered"
    /\ hist_start = <<[role |-> "user", turn |-> 1]>>
    /\ history = hist_start \o <<Msg("user"), Msg("assistant")>>

HasTools(s) == DictHas(mcp_tools, s)

HasPlugin(s) == s \in mcp_plugins

\* C11: whenever a connect or disconnect handler of server S is suspended at
\* an await, a reader finds S's registry data whole: its tool descriptors and
\* its plugin handle are both present or both absent.
C11_NoTornEntry ==
    \A s \in Servers :
        (conn_pc[s] = "plugin_connect" \/ disc_pc[s] = "plugin_disconnect")
            => (HasTools(s) <=> HasPlugin(s))

\* C12: what a turn of this session observes depends on this session's
\* events alone: the tools offered to its model call are plugins of servers
\* this session connected, and the trace it reads holds no record of another
\* session.
C12_SessionsIndependent ==
    /\ msg_pc = "model" => kernel_plugins \subseteq Servers
    /\ \A i \in 1..Len(trace) : trace[i] # PeerTag

\* The servers whose registry entry is Active.
ActiveServers == {s \in Servers : status[s] = "Active"}

\* C13: at every model call of a turn the plugins offered to the model are
\* those of the servers that are Active at that moment: every Active server
\* is offered, and a server whose disconnect has completed (its session is
\* closed) is not.
C13_CatalogIsActiveServers ==
    msg_pc = "model" =>
        /\ ActiveServers \subseteq kernel_plugins
        /\ \A s \in Servers : s \notin mcp_sessions => s \notin kernel_plugins

\* on_mcp_disconnect(s) returns in this step.
DisconnectReturns(s) == disc_pc[s] # "closing" /\ disc_pc'[s] = "closing"

\* No connect handler of s is running before or after this step.
NoConnectRunning(s) == conn_pc[s] = "idle" /\ conn_pc'[s] = "idle"

\* C14: when on_mcp_disconnect(S) returns, on any path, S's entry is gone:
\* neither its tool descriptors nor its plugin handle remain.
C14_DisconnectRemovesEntry ==
    [][\A s \in Servers :
          (DisconnectReturns(s) /\ NoConnectRunning(s))
              => (~DictHas(mcp_tools', s) /\ s \notin mcp_plugins')]_vars

\* on_mcp_connect(s) returns in this step after a failure of one of its
\* steps.
ConnectFails(s) ==
    conn_pc[s] # "idle" /\ conn_pc'[s] = "idle" /\ status'[s] = "Disconnected"

\* C15: when on_mcp_connect(S) returns after a failure at any of its steps,
\* the registry holds no entry for S and no tool resolves to S.
C15_FailedConnectRemovesEntry ==
    [][\A s \in Servers :
          ConnectFails(s)
              => /\ ~DictHas(mcp_tools', s)
                 /\ s \notin mcp_plugins'
                 /\ \A t \in ToolNames : FindIn(mcp_tools', t) # s]_vars

\* The connect handler of s goes on from session.list_tools() in this step.
ConnectRegisters(s) == conn_pc[s] = "list_tools" /\ conn_pc'[s] # "list_tools"

\* C16: registering a server that is already present (tools and handle both
\* held) is refused: the handler does not go on to integrate a plugin, and the
\* existing tools and handle stay as they were.
C16_DuplicateRefused ==
    [][\A s \in Servers :
          (ConnectRegisters(s) /\ HasTools(s) /\ HasPlugin(s))
              => /\ conn_pc'[s] # "plugin_connect"
                 /\ mcp_tools' = mcp_tools
                 /\ mcp_plugins' = mcp_plugins]_vars

\* on_mcp_disconnect(s) is called in this step.
DisconnectStarts(s) == disc_pc[s] = "idle" /\ disc_pc'[s] # "idle"

\* C17: on_mcp_disconnect(S) for a server that is already disconnected (its
\* session is closed, or it never connected) leaves the registry as it is and
\* does not call the plugin's disconnect again.
C17_DisconnectIdempotent ==
    [][\A s \in Servers :
          (DisconnectStarts(s) /\ s \notin mcp_sessions)
              => /\ mcp_tools' = mcp_tools
                 /\ mcp_plugins' = mcp_plugins
                 /\ disc_pc'[s] # "plugin_disconnect"]_vars

\* A step of the connect handler of s fails: the entry of s becomes
\* Disconnected in a step of that handler.
ConnectStepFails(s) ==
    /\ conn_pc[s] \in {"list_tools", "plugin_connect"}
    /\ conn_pc'[s] # conn_pc[s]
    /\ status[s] # "Disconnected" /\ status'[s] = "Disconnected"

\* plugin.disconnect() of s fails: the handler leaves the await and the plugin
\* is still tracked.
DisconnectStepFails(s) ==
    /\ disc_pc[s] = "plugin_disconnect"
    /\ disc_pc'[s] # "plugin_disconnect"
    /\ s \in mcp_plugins'

\* The step leaves what the registry holds for the servers other than s.
OthersKept(s) ==
    \A r \in Servers \ {s} :
        /\ DictHas(mcp_tools', r) <=> DictHas(mcp_tools, r)
        /\ DictHas(mcp_tools, r) => DictGet(mcp_tools', r) = DictGet(mcp_tools, r)
        /\ r \in mcp_plugins' <=> r \in mcp_plugins
        /\ conn_pc'[r] = conn_pc[r] /\ disc_pc'[r] = disc_pc[r]

IsPrefix(a, b) == Len(a) <= Len(b) /\ SubSeq(b, 1, Len(a)) = a

\* C19: the history is append-only: no step of a turn, successful or failed,
\* removes, replaces or reorders a message, so the history before any step is
\* a prefix of the history after it.
C19_HistoryAppendOnly == [][IsPrefix(history, history')]_vars

\* A later turn has ended in an error on a history that held the messages of
\* an earlier turn, and has added to it.
C19_Witness ==
    /\ TurnEnded
    /\ turn >= 2
    /\ outcome = "error"
    /\ hist_start # <<>>
    /\ Len(history) > Len(hist_start)

\* No connect or disconnect handler is in progress.
NoHandlerRunning == \A s \in Servers : conn_pc[s] = "idle" /\ disc_pc[s] = "idle"

\* The keys of mcp_tools, as a set.
ToolKeys == {mcp_tools[i].name : i \in 1..Len(mcp_tools)}

\* C20: whenever no connect or disconnect handler is in progress, the servers
\* holding tool descriptors are exactly the servers holding a plugin handle.
C20_RegistryConsistent == NoHandlerRunning => ToolKeys = mcp_plugins

\* This step is a step of the connect or of the disconnect handler of s.
LifecycleStepOf(s) == conn_pc'[s] # conn_pc[s] \/ disc_pc'[s] # disc_pc[s]

\* C21: a step of a connect or disconnect handler of server S changes only
\* S's own entries: the tools of every other server, their order in mcp_tools
\* (the order of resolution) and their plugin handles are as before, and so is
\* the conversation history.
C21_LifecycleFrame ==
    [][\A s \in Servers :
          LifecycleStepOf(s)
              => /\ DictDel(mcp_tools', s) = DictDel(mcp_tools, s)
                 /\ mcp_plugins' \ {s} = mcp_plugins \ {s}
                 /\ history' = history]_vars

\* The connect handler of one server has stored its tools and is connecting
\* its plugin, while another server is registered with tools and handle and a
\* turn is running on a history that holds messages.
C21_Witness ==
    \E s \in Servers, r \in Servers :
        /\ r # s
        /\ conn_pc[s] = "plugin_connect" /\ HasTools(s)
        /\ HasTools(r) /\ HasPlugin(r)
        /\ msg_pc = "model" /\ history # <<>>

C23_ConnectionsClosed == db.pc \in {"idle", "finished"} => db.open = 0

====
